---- MODULE Spec2Model ----
(***************************************************************************)
(* State-machine model of the exchange-rate service:                       *)
(*   rates.service.ts  (cache, provider call, getLatestRates,              *)
(*                      startSmartPolling, conversion functions)          *)
(*   rates.routes.ts   (GET /api/rates, GET /api/rates/convert)            *)
(*   server.ts         (socket event rates:get)                            *)
(* Node runs every handler to its next await without interleaving, so one  *)
(* action is one run-to-await segment of a handler.                        *)
(***************************************************************************)
EXTENDS Integers, Sequences, FiniteSets, TLC

(***************************************************************************)
(* Bounds of the model.                                                    *)
(***************************************************************************)
\* number of clock steps of 5 s the model follows
Horizon == 7

(***************************************************************************)
(* Program constants.                                                      *)
(***************************************************************************)
\* POLL_INTERVAL_MS default, used as TTL_MS
TTL_MS == 60000
\* AbortController deadline of one provider call
FETCH_TIMEOUT_MS == 10000
\* backoff after a failed tick
BACKOFF_MS == 15000
\* retry delay after a failed bootstrap
INIT_RETRY_MS == 5000
\* lower bound of every scheduled delay
MIN_DELAY_MS == 1000

\* the clock moves on a grid of 5 s; it starts on a full second or half a
\* second after one, so that Math.floor(Date.now() / 1000) rounds in one case
ClockSteps == {5000}
StartTimes == {5000, 5500}
MaxNow == 5500 + 5000 * Horizon

\* query handlers
Reqs == {1, 2}
BOOT == <<"boot", 0>>
TICK == <<"tick", 0>>
ReqOwner(r) == <<"req", r>>
Owners == {BOOT, TICK} \cup {ReqOwner(r) : r \in Reqs}

NULL == [null |-> TRUE]
NoTimer == -1

\* request kinds: the two HTTP routes and the socket event
Kinds == {"rates", "convert", "socket"}
\* error classes of one provider call
Errors == {"http", "provider", "timeout"}

(***************************************************************************)
(* Provider responses.  conversion_rates are kept in thousandths; the table *)
(* carries the base, two ordinary currencies and one quoted at 0.           *)
(***************************************************************************)
RatesA == [USD |-> 1000, EUR |-> 900, ARS |-> 1000000, ZWL |-> 0]
RateTables == {RatesA}
\* time_next_update_unix the provider may declare when asked at second s:
\* absent/0, already past, imminent, 30 s ahead, 90 s ahead
NextUpdates(s) == {0, s - 1, s + 1, s + 30, s + 90}

Floor1000(ms) == ms \div 1000

\* the success bodies the provider may answer with at time ms: its latest
\* table with any of the next-update times, or a table one update older
ProviderBodies(ms) ==
    [ result : {"success"},
      base_code : {"USD"},
      conversion_rates : RateTables,
      time_last_update_unix : {2},
      time_next_update_unix : NextUpdates(Floor1000(ms)) ]
    \cup
    [ result : {"success"},
      base_code : {"USD"},
      conversion_rates : RateTables,
      time_last_update_unix : {1},
      time_next_update_unix : {Floor1000(ms) + 30} ]

\* the fallback name of an absent provider field
FALLBACK_PROVIDER == "exchangerate-api"

\* the normalized ExchangeRateResponse built from a success body; provider and
\* time_eol_unix are optional in the body
Normalize(ok) ==
    [ base_code |-> ok.base_code,
      provider |-> IF "provider" \in DOMAIN ok THEN ok.provider
                   ELSE FALLBACK_PROVIDER,
      rates |-> ok.conversion_rates,
      result |-> ok.result,
      time_eol_unix |-> IF "time_eol_unix" \in DOMAIN ok THEN ok.time_eol_unix
                        ELSE 0,
      time_last_update_unix |-> ok.time_last_update_unix,
      time_next_update_unix |-> ok.time_next_update_unix ]

\* what one call may read as the body of a response with a success status:
\* a success body with or without the optional fields, an error body with or
\* without an error-type, or text that is not JSON
FetchBodies(ms) ==
    {b \in ProviderBodies(ms) : b.time_next_update_unix = Floor1000(ms) + 30}
    \cup { [ result |-> "success", base_code |-> "USD",
              conversion_rates |-> RatesA,
              time_last_update_unix |-> 2,
              time_next_update_unix |-> Floor1000(ms) + 90,
              provider |-> "vendor", time_eol_unix |-> 7 ] }
    \cup { [result |-> "error", errorType |-> "quota-reached"],
           [result |-> "error"],
           [malformed |-> TRUE] }

VARIABLES
    now,            \* Date.now(), ms
    cachedRates,    \* ExchangeRateResponse or NULL
    cacheExpiresAt, \* ms epoch
    asOfUnix,       \* seconds epoch
    timer,          \* deadline of the pending wake timer, or NoTimer
    inFlight,       \* startSmartPolling's flag
    bootPc,         \* bootstrap IIFE: "off", "fetching", "resolved", "done"
    calls,          \* outstanding provider calls: owner -> abort deadline
    req,            \* request handlers
    lastRequest,    \* per socket: time of the last accepted rates:get
    failStreak,     \* failed fetches of tick in a row (observation only)
    schedEnded,     \* when the scheduler's last run ended, kept while no
                    \* more than MIN_DELAY_MS have passed (observation only)
    ev              \* what the last step did (observation only): emits,
                    \* replies, errors, and the snapshot a put replaced

vars == <<now, cachedRates, cacheExpiresAt, asOfUnix, timer, inFlight,
          bootPc, calls, req, lastRequest, failStreak, schedEnded, ev>>
cacheVars == <<cachedRates, cacheExpiresAt, asOfUnix>>

Sockets == {1, 2}
\* per-connection throttle window of rates:get
THROTTLE_MS == 500

\* what the query string of /convert may carry
Queries ==
    { [from |-> "USD", to |-> "EUR", amount |-> "10"],
      [from |-> "eur", to |-> "USD", amount |-> "10"],
      [from |-> "US", to |-> "EUR", amount |-> "10"],
      [from |-> "USD", to |-> "EUR", amount |-> "-1"],
      [from |-> "USD", to |-> "EUR", amount |-> "abc"],
      [from |-> "USD", to |-> "EUR", amount |-> ""] }
\* the codes /^[A-Z]{3}$/ accepts: the base, a quoted currency, one quoted at
\* 0 and one the provider does not quote
ValidCodes == {"USD", "EUR", "ZWL", "GBP"}
\* the amounts the accepted queries carry
Amounts == {10, 0}

IdleReq == [pc |-> "idle", kind |-> "rates", snap |-> NULL, meta |-> NULL]

NoEv == [type |-> "none", who |-> BOOT, err |-> "", uncaught |-> FALSE,
         emit |-> <<>>, reply |-> NULL, replaced |-> NULL, sock |-> 0]
Ev(type, who) == [NoEv EXCEPT !.type = type, !.who = who]

(***************************************************************************)
(* Cache utils.                                                            *)
(***************************************************************************)
Min(a, b) == IF a <= b THEN a ELSE b
Max(a, b) == IF a >= b THEN a ELSE b

\* variant: the expiry instant itself still counts as valid
isCacheValidAt_inclusive(rates, expires, t) == rates # NULL /\ t <= expires

isCacheValidAt(rates, expires, t) == rates # NULL /\ t < expires

isCacheValid == isCacheValidAt(cachedRates, cacheExpiresAt, now)

\* variant: the provider's next update is never taken into account
computeExpireMs_ttlOnly(asOfUnixLocal, providerNextUpdateUnix) ==
    asOfUnixLocal * 1000 + TTL_MS

\* variant: the provider's next update is left in seconds
computeExpireMs_seconds(asOfUnixLocal, providerNextUpdateUnix) ==
    LET localExpireMs == asOfUnixLocal * 1000 + TTL_MS
    IN  IF providerNextUpdateUnix # 0
        THEN Min(localExpireMs, providerNextUpdateUnix)
        ELSE localExpireMs

computeExpireMs(asOfUnixLocal, providerNextUpdateUnix) ==
    LET localExpireMs == asOfUnixLocal * 1000 + TTL_MS
    IN  IF providerNextUpdateUnix # 0
        THEN Min(localExpireMs, providerNextUpdateUnix * 1000)
        ELSE localExpireMs

\* variant: the expiry is not rewritten with the snapshot
updateCache_torn(rates) ==
    /\ cachedRates' = rates
    /\ asOfUnix' = Floor1000(now)
    /\ UNCHANGED cacheExpiresAt

\* variant: a later refresh patches the stored snapshot field by field
updateCache_patch(rates) ==
    /\ cachedRates' = IF cachedRates = NULL THEN rates
                      ELSE [cachedRates EXCEPT
                              !.time_next_update_unix = rates.time_next_update_unix]
    /\ asOfUnix' = Floor1000(now)
    /\ cacheExpiresAt' = computeExpireMs(Floor1000(now), rates.time_next_update_unix)

updateCache(rates) ==
    /\ cachedRates' = rates
    /\ asOfUnix' = Floor1000(now)
    /\ cacheExpiresAt' = computeExpireMs(Floor1000(now), rates.time_next_update_unix)

\* snapshot plus cache metadata, read from the given cache fields
WithMeta(snap, asOf, expires) ==
    [ snap |-> snap, as_of_unix |-> asOf, cache_ttl_ms |-> TTL_MS,
      expires_unix |-> Floor1000(expires) ]

buildSnapshotWithMeta(rates, asOf, expires) == WithMeta(rates, asOf, expires)

(***************************************************************************)
(* Provider call.                                                          *)
(***************************************************************************)
Outstanding == {o \in Owners : calls[o] # NoTimer}

\* fetchRatesFromProvider up to its first await: arm the abort timer, send
startFetch(o) == calls' = [calls EXCEPT ![o] = now + FETCH_TIMEOUT_MS]

endFetch(o) == calls' = [calls EXCEPT ![o] = NoTimer]

\* variant: timers and network callbacks overtake queued continuations
microPending_never == FALSE

\* a continuation queued behind a resolved promise has still to run; the
\* event loop runs it before any timer or network callback
microPending ==
    \/ bootPc = "resolved"
    \/ \E r \in Reqs : req[r].pc \in {"gotSnap", "gotMeta"}

\* the outcomes a call of owner o can have now: the abort timer gives
\* "timeout" once its deadline is reached, a response arrives before it; the
\* read of a non-success response's text swallows the abort, so that "http"
\* is an outcome at the deadline too
canFail(o, err) ==
    /\ calls[o] # NoTimer
    /\ ~microPending
    /\ IF err = "timeout" THEN now >= calls[o]
       ELSE IF err = "http" THEN TRUE
       ELSE now < calls[o]

canSucceed(o) == calls[o] # NoTimer /\ ~microPending /\ now < calls[o]

(***************************************************************************)
(* startSmartPolling.                                                      *)
(***************************************************************************)
\* variant: the delay is used as computed, without the 1 s floor
scheduleNext_noFloor(ms) == timer' = now + ms

\* scheduleNext: clearTimeout of the pending timer, then setTimeout(tick, delay)
scheduleNext(ms) == timer' = now + Max(MIN_DELAY_MS, ms)

\* variant: the first wake-up is armed before the bootstrap fetch has ended
StartSmartPolling_armsEarly ==
    /\ bootPc = "off"
    /\ ~microPending
    /\ IF isCacheValid
       THEN /\ bootPc' = "resolved"
            /\ UNCHANGED <<calls, timer>>
       ELSE /\ bootPc' = "fetching"
            /\ startFetch(BOOT)
            /\ scheduleNext(INIT_RETRY_MS)
    /\ ev' = Ev("start", BOOT)
    /\ UNCHANGED <<now, cacheVars, inFlight, req, lastRequest, failStreak, schedEnded>>

\* startSmartPolling(io): the bootstrap IIFE runs getLatestRates to its await
StartSmartPolling ==
    /\ bootPc = "off"
    /\ ~microPending
    /\ IF isCacheValid
       THEN /\ bootPc' = "resolved"
            /\ UNCHANGED calls
       ELSE /\ bootPc' = "fetching"
            /\ startFetch(BOOT)
    /\ ev' = Ev("start", BOOT)
    /\ UNCHANGED <<now, cacheVars, timer, inFlight, req, lastRequest, failStreak, schedEnded>>

\* getLatestRates of the bootstrap resumes with a fresh snapshot
BootFetchOk(body) ==
    /\ bootPc = "fetching"
    /\ canSucceed(BOOT)
    /\ updateCache(Normalize(body))
    /\ endFetch(BOOT)
    /\ bootPc' = "resolved"
    /\ ev' = [Ev("put", BOOT) EXCEPT !.replaced = cachedRates]
    /\ schedEnded' = now
    /\ UNCHANGED <<now, timer, inFlight, req, lastRequest, failStreak>>

\* the bootstrap continues after await getLatestRates()
BootContinue ==
    /\ bootPc = "resolved"
    /\ scheduleNext(cacheExpiresAt - now)
    /\ bootPc' = "done"
    /\ ev' = Ev("armed", BOOT)
    /\ schedEnded' = now
    /\ UNCHANGED <<now, cacheVars, inFlight, calls, req, lastRequest, failStreak>>

\* variant: a failed bootstrap enters the steady backoff
BootFetchFail_backoff(err) ==
    /\ bootPc = "fetching"
    /\ canFail(BOOT, err)
    /\ endFetch(BOOT)
    /\ scheduleNext(BACKOFF_MS)
    /\ bootPc' = "done"
    /\ ev' = [Ev("fail", BOOT) EXCEPT !.err = err]
    /\ schedEnded' = now
    /\ UNCHANGED <<now, cacheVars, inFlight, req, lastRequest, failStreak>>

\* the bootstrap fetch fails: caught by the IIFE
BootFetchFail(err) ==
    /\ bootPc = "fetching"
    /\ canFail(BOOT, err)
    /\ endFetch(BOOT)
    /\ scheduleNext(INIT_RETRY_MS)
    /\ bootPc' = "done"
    /\ ev' = [Ev("fail", BOOT) EXCEPT !.err = err]
    /\ schedEnded' = now
    /\ UNCHANGED <<now, cacheVars, inFlight, req, lastRequest, failStreak>>

\* variant: tick refreshes at every wake-up, valid cache or not
Tick_alwaysFetch ==
    /\ timer # NoTimer
    /\ now >= timer
    /\ ~microPending
    /\ IF inFlight
       THEN /\ timer' = NoTimer
            /\ ev' = Ev("noop", TICK)
            /\ UNCHANGED <<inFlight, calls>>
       ELSE /\ timer' = NoTimer
            /\ inFlight' = TRUE
            /\ startFetch(TICK)
            /\ ev' = Ev("fetch", TICK)
    /\ UNCHANGED <<now, cacheVars, bootPc, req, lastRequest, failStreak, schedEnded>>

\* the wake timer fires: tick up to its return or its await
Tick ==
    /\ timer # NoTimer
    /\ now >= timer
    /\ ~microPending
    /\ IF inFlight
       THEN /\ timer' = NoTimer
            /\ ev' = Ev("noop", TICK)
            /\ UNCHANGED <<inFlight, calls>>
       ELSE IF isCacheValid
       THEN /\ scheduleNext(cacheExpiresAt - now)
            /\ ev' = Ev("skip", TICK)
            /\ UNCHANGED <<inFlight, calls>>
       ELSE /\ timer' = NoTimer
            /\ inFlight' = TRUE
            /\ startFetch(TICK)
            /\ ev' = Ev("fetch", TICK)
    /\ failStreak' = IF ~inFlight /\ isCacheValid THEN 0 ELSE failStreak
    /\ schedEnded' = IF ~inFlight /\ isCacheValid THEN now ELSE schedEnded
    /\ UNCHANGED <<now, cacheVars, bootPc, req, lastRequest>>

\* tick resumes with a fresh snapshot: put, broadcast, re-arm
TickFetchOk(body) ==
    /\ canSucceed(TICK)
    /\ updateCache(Normalize(body))
    /\ endFetch(TICK)
    /\ scheduleNext(cacheExpiresAt' - now)
    /\ inFlight' = FALSE
    /\ ev' = [Ev("put", TICK) EXCEPT !.replaced = cachedRates, !.emit =
                <<buildSnapshotWithMeta(cachedRates', asOfUnix', cacheExpiresAt')>>]
    /\ failStreak' = 0
    /\ schedEnded' = now
    /\ UNCHANGED <<now, bootPc, req, lastRequest>>

\* variant: a failed refresh drops the stored snapshot
TickFetchFail_clearsCache(err) ==
    /\ canFail(TICK, err)
    /\ endFetch(TICK)
    /\ scheduleNext(BACKOFF_MS)
    /\ inFlight' = FALSE
    /\ cachedRates' = NULL
    /\ cacheExpiresAt' = 0
    /\ asOfUnix' = 0
    /\ ev' = [Ev("fail", TICK) EXCEPT !.err = err]
    /\ failStreak' = failStreak + 1
    /\ schedEnded' = now
    /\ UNCHANGED <<now, bootPc, req, lastRequest>>

\* variant: the backoff grows with the number of failures in a row
TickFetchFail_growing(err) ==
    /\ canFail(TICK, err)
    /\ endFetch(TICK)
    /\ scheduleNext(BACKOFF_MS * (failStreak + 1))
    /\ inFlight' = FALSE
    /\ ev' = [Ev("fail", TICK) EXCEPT !.err = err]
    /\ failStreak' = failStreak + 1
    /\ schedEnded' = now
    /\ UNCHANGED <<now, cacheVars, bootPc, req, lastRequest>>

\* variant: a failed refresh arms no further wake-up
TickFetchFail_stalls(err) ==
    /\ canFail(TICK, err)
    /\ endFetch(TICK)
    /\ timer' = NoTimer
    /\ inFlight' = FALSE
    /\ ev' = [Ev("fail", TICK) EXCEPT !.err = err]
    /\ failStreak' = failStreak + 1
    /\ schedEnded' = now
    /\ UNCHANGED <<now, cacheVars, bootPc, req, lastRequest>>

\* tick's fetch fails: logged, backoff
TickFetchFail(err) ==
    /\ canFail(TICK, err)
    /\ endFetch(TICK)
    /\ scheduleNext(BACKOFF_MS)
    /\ inFlight' = FALSE
    /\ ev' = [Ev("fail", TICK) EXCEPT !.err = err]
    /\ failStreak' = failStreak + 1
    /\ schedEnded' = now
    /\ UNCHANGED <<now, cacheVars, bootPc, req, lastRequest>>

\* the owner of a started scheduler wants it stopped: startSmartPolling
\* returns void and keeps timer, inFlight and tick in its closure, so the
\* request reaches no code of the scheduler and changes nothing
StopRequested ==
    /\ bootPc # "off"
    /\ ~microPending
    /\ ev.type # "stop"
    /\ ev' = Ev("stop", BOOT)
    /\ UNCHANGED <<now, cacheVars, timer, inFlight, bootPc, calls, req,
                   lastRequest, failStreak, schedEnded>>

(***************************************************************************)
(* Conversion functions.  A number is a fraction num/den; den = 0 stands   *)
(* for the Infinity or NaN a division by 0 gives.                          *)
(***************************************************************************)
Num(n, d) == [num |-> n, den |-> d]

has(rates, code) == code \in DOMAIN rates

getRateByCurrencyOf(cached, currency) ==
    IF cached = NULL THEN NULL
    ELSE IF has(cached.rates, currency)
         THEN Num(cached.rates[currency], 1000) ELSE NULL

\* variant: the base branch answers with the inverse rate
getRateBetweenCurrenciesOf_inverse(cached, from, to) ==
    IF cached = NULL THEN NULL
    ELSE LET base_code == cached.base_code
             rates == cached.rates
         IN  IF from = to THEN Num(1, 1)
             ELSE IF from = base_code
             THEN (IF has(rates, to) THEN Num(1000, rates[to]) ELSE NULL)
             ELSE IF to = base_code
             THEN (IF has(rates, from) /\ rates[from] # 0
                   THEN Num(1000, rates[from]) ELSE NULL)
             ELSE IF ~has(rates, from) \/ ~has(rates, to) THEN NULL
             ELSE Num(rates[to], rates[from])

\* variant: the inverse is taken of every quoted rate, 0 included
getRateBetweenCurrenciesOf_dividesByZero(cached, from, to) ==
    IF cached = NULL THEN NULL
    ELSE LET base_code == cached.base_code
             rates == cached.rates
         IN  IF from = to THEN Num(1, 1)
             ELSE IF from = base_code
             THEN (IF has(rates, to) THEN Num(rates[to], 1000) ELSE NULL)
             ELSE IF to = base_code
             THEN (IF has(rates, from)
                   THEN Num(1000, rates[from]) ELSE NULL)
             ELSE IF ~has(rates, from) \/ ~has(rates, to) THEN NULL
             ELSE Num(rates[to], rates[from])

\* variant: the cross rate is taken the wrong way round
getRateBetweenCurrenciesOf_crossSwapped(cached, from, to) ==
    IF cached = NULL THEN NULL
    ELSE LET base_code == cached.base_code
             rates == cached.rates
         IN  IF from = to THEN Num(1, 1)
             ELSE IF from = base_code
             THEN (IF has(rates, to) THEN Num(rates[to], 1000) ELSE NULL)
             ELSE IF to = base_code
             THEN (IF has(rates, from) /\ rates[from] # 0
                   THEN Num(1000, rates[from]) ELSE NULL)
             ELSE IF ~has(rates, from) \/ ~has(rates, to) THEN NULL
             ELSE Num(rates[from], rates[to])

getRateBetweenCurrenciesOf(cached, from, to) ==
    IF cached = NULL THEN NULL
    ELSE LET base_code == cached.base_code
             rates == cached.rates
         IN  IF from = to THEN Num(1, 1)
             ELSE IF from = base_code
             THEN (IF has(rates, to) THEN Num(rates[to], 1000) ELSE NULL)
             ELSE IF to = base_code
             THEN (IF has(rates, from) /\ rates[from] # 0
                   THEN Num(1000, rates[from]) ELSE NULL)
             ELSE IF ~has(rates, from) \/ ~has(rates, to) THEN NULL
             ELSE Num(rates[to], rates[from])

getRateByCurrency(currency) == getRateByCurrencyOf(cachedRates, currency)

getRateBetweenCurrencies(from, to) ==
    getRateBetweenCurrenciesOf(cachedRates, from, to)

(***************************************************************************)
(* Request paths.                                                          *)
(***************************************************************************)
ToUpperCase(c) == IF c = "eur" THEN "EUR" ELSE c

\* /^[A-Z]{3}$/
isValidCurrency(code) == code \in ValidCodes

Reply(r, status, body) ==
    [Ev("reply", ReqOwner(r)) EXCEPT !.reply =
        [kind |-> req[r].kind, status |-> status, body |-> body]]

\* variant: getLatestRates asks the provider whatever the cache holds
getLatestRatesBegin_alwaysFetch(r, kind) ==
    /\ req' = [req EXCEPT ![r] =
                 [pc |-> "fetching", kind |-> kind, snap |-> NULL, meta |-> NULL]]
    /\ startFetch(ReqOwner(r))

\* getLatestRates up to its return or its await, for request handler r
getLatestRatesBegin(r, kind) ==
    IF isCacheValid
    THEN /\ req' = [req EXCEPT ![r] =
                      [pc |-> "gotSnap", kind |-> kind, snap |-> cachedRates,
                       meta |-> NULL]]
         /\ UNCHANGED calls
    ELSE /\ req' = [req EXCEPT ![r] =
                      [pc |-> "fetching", kind |-> kind, snap |-> NULL,
                       meta |-> NULL]]
         /\ startFetch(ReqOwner(r))

\* variant: a request waits for the scheduler's call to end
RatesRequest_waitsForScheduler(r) ==
    /\ req[r].pc = "idle"
    /\ ~microPending
    /\ calls[BOOT] = NoTimer /\ calls[TICK] = NoTimer
    /\ getLatestRatesBegin(r, "rates")
    /\ ev' = Ev("request", ReqOwner(r))
    /\ UNCHANGED <<now, cacheVars, timer, inFlight, bootPc, lastRequest, failStreak, schedEnded>>

\* GET /api/rates arrives
RatesRequest(r) ==
    /\ req[r].pc = "idle"
    /\ ~microPending
    /\ getLatestRatesBegin(r, "rates")
    /\ ev' = Ev("request", ReqOwner(r))
    /\ UNCHANGED <<now, cacheVars, timer, inFlight, bootPc, lastRequest, failStreak, schedEnded>>

\* Number(amountStr): a finite number, or NaN; the empty string converts to 0
Number(amountStr) ==
    IF amountStr = "10" THEN [finite |-> TRUE, value |-> 10]
    ELSE IF amountStr = "-1" THEN [finite |-> TRUE, value |-> -1]
    ELSE IF amountStr = "" THEN [finite |-> TRUE, value |-> 0]
    ELSE [finite |-> FALSE, value |-> 0]

\* variant: the amount is not validated
ConvertRequest_anyAmount(r, q) ==
    /\ req[r].pc = "idle"
    /\ ~microPending
    /\ LET from == ToUpperCase(q.from)
           to == ToUpperCase(q.to)
       IN  IF ~isValidCurrency(from) \/ ~isValidCurrency(to)
           THEN /\ ev' = [Ev("reply", ReqOwner(r)) EXCEPT !.reply =
                           [kind |-> "convert", status |-> 400, body |-> q]]
                /\ UNCHANGED <<calls, req>>
           ELSE /\ getLatestRatesBegin(r, "convert")
                /\ ev' = [Ev("request", ReqOwner(r)) EXCEPT !.reply =
                           [kind |-> "convert", status |-> 0, body |-> q]]
    /\ UNCHANGED <<now, cacheVars, timer, inFlight, bootPc, lastRequest, failStreak, schedEnded>>

\* GET /api/rates/convert arrives with query q: the validations answer 400,
\* or getLatestRatesWithCacheMeta is called; from, to and amount are not read
\* again before the reply, which draws them among the accepted values
ConvertRequest(r, q) ==
    /\ req[r].pc = "idle"
    /\ ~microPending
    /\ LET from == ToUpperCase(q.from)
           to == ToUpperCase(q.to)
           amount == Number(q.amount)
       IN  IF ~isValidCurrency(from) \/ ~isValidCurrency(to)
           THEN /\ ev' = [Ev("reply", ReqOwner(r)) EXCEPT !.reply =
                           [kind |-> "convert", status |-> 400, body |-> q]]
                /\ UNCHANGED <<calls, req>>
           ELSE IF ~amount.finite \/ amount.value < 0
           THEN /\ ev' = [Ev("reply", ReqOwner(r)) EXCEPT !.reply =
                           [kind |-> "convert", status |-> 400, body |-> q]]
                /\ UNCHANGED <<calls, req>>
           ELSE /\ getLatestRatesBegin(r, "convert")
                /\ ev' = [Ev("request", ReqOwner(r)) EXCEPT !.reply =
                           [kind |-> "convert", status |-> 0, body |-> q]]
    /\ UNCHANGED <<now, cacheVars, timer, inFlight, bootPc, lastRequest, failStreak, schedEnded>>

\* variant: one throttle window is shared by all connections
SocketGet_sharedThrottle(r, s) ==
    /\ req[r].pc = "idle"
    /\ ~microPending
    /\ IF \E t \in Sockets : now - lastRequest[t] < THROTTLE_MS
       THEN /\ ev' = [Ev("drop", ReqOwner(r)) EXCEPT !.sock = s]
            /\ UNCHANGED <<calls, req, lastRequest>>
       ELSE /\ lastRequest' = [lastRequest EXCEPT ![s] = now]
            /\ getLatestRatesBegin(r, "socket")
            /\ ev' = [Ev("request", ReqOwner(r)) EXCEPT !.sock = s]
    /\ UNCHANGED <<now, cacheVars, timer, inFlight, bootPc, failStreak, schedEnded>>

\* socket event rates:get on connection s
SocketGet(r, s) ==
    /\ req[r].pc = "idle"
    /\ ~microPending
    /\ IF now - lastRequest[s] < THROTTLE_MS
       THEN /\ ev' = [Ev("drop", ReqOwner(r)) EXCEPT !.sock = s]
            /\ UNCHANGED <<calls, req, lastRequest>>
       ELSE /\ lastRequest' = [lastRequest EXCEPT ![s] = now]
            /\ getLatestRatesBegin(r, "socket")
            /\ ev' = [Ev("request", ReqOwner(r)) EXCEPT !.sock = s]
    /\ UNCHANGED <<now, cacheVars, timer, inFlight, bootPc, failStreak, schedEnded>>

\* variant: the fresh snapshot is returned without being stored
ReqFetchOk_noStore(r, body) ==
    /\ req[r].pc = "fetching"
    /\ canSucceed(ReqOwner(r))
    /\ endFetch(ReqOwner(r))
    /\ req' = [req EXCEPT ![r].pc = "gotSnap", ![r].snap = Normalize(body)]
    /\ ev' = Ev("put", ReqOwner(r))
    /\ UNCHANGED <<now, cacheVars, timer, inFlight, bootPc, lastRequest, failStreak, schedEnded>>

\* getLatestRates of handler r resumes with a fresh snapshot
ReqFetchOk(r, body) ==
    /\ req[r].pc = "fetching"
    /\ canSucceed(ReqOwner(r))
    /\ updateCache(Normalize(body))
    /\ endFetch(ReqOwner(r))
    /\ req' = [req EXCEPT ![r].pc = "gotSnap", ![r].snap = Normalize(body)]
    /\ ev' = [Ev("put", ReqOwner(r)) EXCEPT !.replaced = cachedRates]
    /\ UNCHANGED <<now, timer, inFlight, bootPc, lastRequest, failStreak, schedEnded>>

\* variant: the handler has no catch, the rejection is left unhandled
ReqFetchFail_uncaught(r, err) ==
    /\ req[r].pc = "fetching"
    /\ canFail(ReqOwner(r), err)
    /\ endFetch(ReqOwner(r))
    /\ req' = [req EXCEPT ![r] = IdleReq]
    /\ ev' = [Ev("fail", ReqOwner(r)) EXCEPT !.err = err, !.uncaught = TRUE]
    /\ UNCHANGED <<now, cacheVars, timer, inFlight, bootPc, lastRequest, failStreak, schedEnded>>

\* the fetch of handler r fails: the handler's catch answers
ReqFetchFail(r, err) ==
    /\ req[r].pc = "fetching"
    /\ canFail(ReqOwner(r), err)
    /\ endFetch(ReqOwner(r))
    /\ req' = [req EXCEPT ![r] = IdleReq]
    /\ ev' = [Reply(r, IF req[r].kind = "socket" THEN "rates:error" ELSE 503,
                    NULL) EXCEPT !.err = err]
    /\ UNCHANGED <<now, cacheVars, timer, inFlight, bootPc, lastRequest, failStreak, schedEnded>>

\* the socket handler continues after await getLatestRates()
SocketReply(r) ==
    /\ req[r].pc = "gotSnap"
    /\ req[r].kind = "socket"
    /\ req' = [req EXCEPT ![r] = IdleReq]
    /\ ev' = Reply(r, "rates:data", req[r].snap)
    /\ UNCHANGED <<now, cacheVars, timer, inFlight, bootPc, calls, lastRequest, failStreak, schedEnded>>

\* getLatestRatesWithCacheMeta continues after await getLatestRates()
ReadMeta(r) ==
    /\ req[r].pc = "gotSnap"
    /\ req[r].kind \in {"rates", "convert"}
    /\ req' = [req EXCEPT ![r].pc = "gotMeta",
                          ![r].meta = WithMeta(req[r].snap, asOfUnix, cacheExpiresAt)]
    /\ ev' = Ev("meta", ReqOwner(r))
    /\ UNCHANGED <<now, cacheVars, timer, inFlight, bootPc, calls, lastRequest, failStreak, schedEnded>>

\* GET /api/rates continues after await getLatestRatesWithCacheMeta()
RatesReply(r) ==
    /\ req[r].pc = "gotMeta"
    /\ req[r].kind = "rates"
    /\ req' = [req EXCEPT ![r] = IdleReq]
    /\ ev' = Reply(r, 200, req[r].meta)
    /\ UNCHANGED <<now, cacheVars, timer, inFlight, bootPc, calls, lastRequest, failStreak, schedEnded>>

\* variant: the converted amount is rounded down to a whole number
ConvertReply_rounds(r, from, to, amount) ==
    /\ req[r].pc = "gotMeta"
    /\ req[r].kind = "convert"
    /\ req' = [req EXCEPT ![r] = IdleReq]
    /\ LET snapshot == req[r].meta
           rate == getRateBetweenCurrencies(from, to)
       IN  ev' = IF from = to
                 THEN Reply(r, 200, [from |-> from, to |-> to, amount |-> amount,
                                     rate |-> Num(1, 1), converted |-> Num(amount, 1),
                                     meta |-> snapshot])
                 ELSE IF rate = NULL
                 THEN Reply(r, 404, [from |-> from, to |-> to])
                 ELSE Reply(r, 200, [from |-> from, to |-> to, amount |-> amount,
                                     rate |-> rate,
                                     converted |->
                                        IF rate.den = 0
                                        THEN Num(amount * rate.num, rate.den)
                                        ELSE Num((amount * rate.num) \div rate.den, 1),
                                     meta |-> snapshot])
    /\ UNCHANGED <<now, cacheVars, timer, inFlight, bootPc, calls, lastRequest, failStreak, schedEnded>>

\* GET /api/rates/convert continues after await getLatestRatesWithCacheMeta()
ConvertReply(r, from, to, amount) ==
    /\ req[r].pc = "gotMeta"
    /\ req[r].kind = "convert"
    /\ req' = [req EXCEPT ![r] = IdleReq]
    /\ LET snapshot == req[r].meta
           rate == getRateBetweenCurrencies(from, to)
       IN  ev' = IF from = to
                 THEN Reply(r, 200, [from |-> from, to |-> to, amount |-> amount,
                                     rate |-> Num(1, 1), converted |-> Num(amount, 1),
                                     meta |-> snapshot])
                 ELSE IF rate = NULL
                 THEN Reply(r, 404, [from |-> from, to |-> to])
                 ELSE Reply(r, 200, [from |-> from, to |-> to, amount |-> amount,
                                     rate |-> rate,
                                     converted |-> Num(amount * rate.num, rate.den),
                                     meta |-> snapshot])
    /\ UNCHANGED <<now, cacheVars, timer, inFlight, bootPc, calls, lastRequest, failStreak, schedEnded>>

(***************************************************************************)
(* Clock.                                                                  *)
(***************************************************************************)
\* the observation schedEnded once d more ms have passed
schedEndedAfter(d) ==
    IF schedEnded # NoTimer /\ now + d - schedEnded <= MIN_DELAY_MS
    THEN schedEnded ELSE NoTimer

\* time passes; a timer that is due fires before time passes again
ClockAdvance(d) ==
    /\ ~microPending
    /\ now + d <= MaxNow
    /\ timer = NoTimer \/ now < timer
    /\ \A o \in Outstanding : now + d <= calls[o]
    /\ now' = now + d
    /\ ev' = Ev("clock", BOOT)
    /\ schedEnded' = schedEndedAfter(d)
    /\ UNCHANGED <<cacheVars, timer, inFlight, bootPc, calls, req, lastRequest, failStreak>>

Init ==
    /\ now \in StartTimes
    /\ cachedRates = NULL
    /\ cacheExpiresAt = 0
    /\ asOfUnix = 0
    /\ timer = NoTimer
    /\ inFlight = FALSE
    /\ bootPc = "off"
    /\ calls = [o \in Owners |-> NoTimer]
    /\ req = [r \in Reqs |-> IdleReq]
    /\ lastRequest = [s \in Sockets |-> 0]
    /\ failStreak = 0
    /\ schedEnded = NoTimer
    /\ ev = NoEv

\* the scheduler, the HTTP routes served by one handler at a time, and the
\* clock
SchedReqs == {1}
\* next to the scheduler, conversions are asked between the base and one
\* quoted currency; every pair and amount is asked in SpecQuery
SchedCodes == {"USD", "EUR"}
SchedAmounts == {10}

Next ==
    \/ StartSmartPolling
    \/ \E body \in ProviderBodies(now) : BootFetchOk(body)
    \/ BootContinue
    \/ \E err \in Errors : BootFetchFail(err)
    \/ Tick
    \/ \E body \in ProviderBodies(now) : TickFetchOk(body)
    \/ \E err \in Errors : TickFetchFail(err)
    \/ StopRequested
    \/ \E r \in SchedReqs : RatesRequest(r)
    \/ \E r \in SchedReqs, q \in Queries : ConvertRequest(r, q)
    \/ \E r \in SchedReqs, body \in ProviderBodies(now) : ReqFetchOk(r, body)
    \/ \E r \in SchedReqs, err \in Errors : ReqFetchFail(r, err)
    \/ \E r \in SchedReqs : ReadMeta(r)
    \/ \E r \in SchedReqs : RatesReply(r)
    \/ \E r \in SchedReqs, from \in SchedCodes, to \in SchedCodes,
          amount \in SchedAmounts : ConvertReply(r, from, to, amount)
    \/ \E d \in ClockSteps : ClockAdvance(d)

Spec == Init /\ [][Next]_vars

\* the query paths alone (startSmartPolling is never called, as in
\* server.ts): both HTTP routes and the socket event
QueryNext ==
    \/ \E r \in SchedReqs : RatesRequest(r)
    \/ \E r \in SchedReqs, q \in Queries : ConvertRequest(r, q)
    \/ \E r \in SchedReqs, s \in {1} : SocketGet(r, s)
    \/ \E r \in SchedReqs, body \in ProviderBodies(now) : ReqFetchOk(r, body)
    \/ \E r \in SchedReqs, err \in Errors : ReqFetchFail(r, err)
    \/ \E r \in SchedReqs : SocketReply(r)
    \/ \E r \in SchedReqs : ReadMeta(r)
    \/ \E r \in SchedReqs : RatesReply(r)
    \/ \E r \in SchedReqs, from \in ValidCodes, to \in ValidCodes,
          amount \in Amounts : ConvertReply(r, from, to, amount)
    \/ \E d \in ClockSteps : ClockAdvance(d)

SpecQuery == Init /\ [][QueryNext]_vars

\* the socket event alone, on every connection, on a clock fine enough for
\* the throttle window
SocketHorizon == 6
SocketClockSteps == {250}

SocketClockAdvance(d) ==
    /\ ~microPending
    /\ now + d <= 5500 + 250 * SocketHorizon
    /\ \A o \in Outstanding : now + d <= calls[o]
    /\ now' = now + d
    /\ ev' = Ev("clock", BOOT)
    /\ schedEnded' = schedEndedAfter(d)
    /\ UNCHANGED <<cacheVars, timer, inFlight, bootPc, calls, req, lastRequest, failStreak>>

SocketNext ==
    \/ \E r \in Reqs, s \in Sockets : SocketGet(r, s)
    \/ \E r \in Reqs, body \in ProviderBodies(now) : ReqFetchOk(r, body)
    \/ \E r \in Reqs, err \in Errors : ReqFetchFail(r, err)
    \/ \E r \in Reqs : SocketReply(r)
    \/ \E d \in SocketClockSteps : SocketClockAdvance(d)

SpecSocket == Init /\ [][SocketNext]_vars

\* the scheduler next to GET /api/rates, on a clock fine enough for the
\* 1000 ms floor of scheduleNext: a timer armed 1000 ms ahead fires 1000 ms
\* later
SchedHorizon == 14
SchedClockSteps == {500}

SchedClockAdvance(d) ==
    /\ ~microPending
    /\ now + d <= 5500 + 500 * SchedHorizon
    /\ timer = NoTimer \/ now < timer
    /\ \A o \in Outstanding : now + d <= calls[o]
    /\ now' = now + d
    /\ schedEnded' = schedEndedAfter(d)
    /\ ev' = Ev("clock", BOOT)
    /\ UNCHANGED <<cacheVars, timer, inFlight, bootPc, calls, req, lastRequest, failStreak>>

SchedNext ==
    \/ StartSmartPolling
    \/ \E body \in ProviderBodies(now) : BootFetchOk(body)
    \/ BootContinue
    \/ \E err \in Errors : BootFetchFail(err)
    \/ Tick
    \/ \E body \in ProviderBodies(now) : TickFetchOk(body)
    \/ \E err \in Errors : TickFetchFail(err)
    \/ \E r \in SchedReqs : RatesRequest(r)
    \/ \E r \in SchedReqs, body \in ProviderBodies(now) : ReqFetchOk(r, body)
    \/ \E r \in SchedReqs, err \in Errors : ReqFetchFail(r, err)
    \/ \E r \in SchedReqs : ReadMeta(r)
    \/ \E r \in SchedReqs : RatesReply(r)
    \/ \E d \in SchedClockSteps : SchedClockAdvance(d)

SpecSched == Init /\ [][SchedNext]_vars

(***************************************************************************)
(* fetchRatesFromProvider await by await, as called by GET /api/rates:     *)
(* await fetch(), then await resp.text() or await resp.json(), with the     *)
(* abort timer armed from the start to the finally.                        *)
(***************************************************************************)
\* what fetchRatesFromProvider throws
HttpError == [name |-> "Error", message |-> "Provider HTTP"]
ResultError(errType) ==
    [name |-> "Error", message |-> "Provider result not success", reason |-> errType]
TimeoutError == [name |-> "Error", message |-> "Provider request timed out"]
\* what fetch() and resp.json() reject with, rethrown as they are
FetchFailed == [name |-> "TypeError", message |-> "fetch failed"]
NotJson == [name |-> "SyntaxError", message |-> "Unexpected token"]

\* the call of handler r ends by throwing: finally clears the abort timer and
\* the route's catch logs the error and answers 503
fetchThrows(r, class, error) ==
    /\ endFetch(ReqOwner(r))
    /\ req' = [req EXCEPT ![r] = IdleReq]
    /\ ev' = [Reply(r, 503, error) EXCEPT !.err = class]
    /\ UNCHANGED <<now, cacheVars, timer, inFlight, bootPc, lastRequest, failStreak, schedEnded>>

\* fetch() resolves with a response, before the abort
FetchHeaders(r, ok) ==
    /\ req[r].pc = "fetching"
    /\ canSucceed(ReqOwner(r))
    /\ req' = [req EXCEPT ![r].pc = IF ok THEN "readingJson" ELSE "readingText"]
    /\ ev' = Ev("response", ReqOwner(r))
    /\ UNCHANGED <<now, cacheVars, timer, inFlight, bootPc, calls, lastRequest, failStreak, schedEnded>>

\* fetch() rejects because the connection failed
FetchRejected(r) ==
    /\ req[r].pc = "fetching"
    /\ canSucceed(ReqOwner(r))
    /\ fetchThrows(r, "network", FetchFailed)

\* variant: an abort is rethrown as it is
FetchAborted_unclassified(r) ==
    /\ req[r].pc \in {"fetching", "readingJson"}
    /\ calls[ReqOwner(r)] # NoTimer /\ now >= calls[ReqOwner(r)]
    /\ fetchThrows(r, "abort", [name |-> "AbortError", message |-> "aborted"])

\* the abort timer fires while fetch() or resp.json() is awaited
FetchAborted(r) ==
    /\ req[r].pc \in {"fetching", "readingJson"}
    /\ calls[ReqOwner(r)] # NoTimer /\ now >= calls[ReqOwner(r)]
    /\ fetchThrows(r, "timeout", TimeoutError)

\* resp.text() of a non-success response settles: with the text, or, when the
\* abort timer fires first, with the "" of its catch
FetchTextDone(r) ==
    /\ req[r].pc = "readingText"
    /\ fetchThrows(r, "http", HttpError)

\* resp.json() of a success-status response settles before the abort
FetchJsonDone(r, body) ==
    /\ req[r].pc = "readingJson"
    /\ canSucceed(ReqOwner(r))
    /\ IF "malformed" \in DOMAIN body
       THEN fetchThrows(r, "malformed", NotJson)
       ELSE IF body.result # "success"
       THEN fetchThrows(r, "provider",
                ResultError(IF "errorType" \in DOMAIN body THEN body.errorType
                            ELSE "Unknown provider error"))
       ELSE /\ updateCache(Normalize(body))
            /\ endFetch(ReqOwner(r))
            /\ req' = [req EXCEPT ![r].pc = "gotSnap", ![r].snap = Normalize(body)]
            /\ ev' = [Ev("put", ReqOwner(r)) EXCEPT !.replaced = cachedRates]
            /\ UNCHANGED <<now, timer, inFlight, bootPc, lastRequest, failStreak, schedEnded>>

FetchNext ==
    \/ \E r \in SchedReqs : RatesRequest(r)
    \/ \E r \in SchedReqs, ok \in BOOLEAN : FetchHeaders(r, ok)
    \/ \E r \in SchedReqs : FetchRejected(r)
    \/ \E r \in SchedReqs : FetchAborted(r)
    \/ \E r \in SchedReqs : FetchTextDone(r)
    \/ \E r \in SchedReqs, body \in FetchBodies(now) : FetchJsonDone(r, body)
    \/ \E r \in SchedReqs : ReadMeta(r)
    \/ \E r \in SchedReqs : RatesReply(r)
    \/ \E d \in ClockSteps : ClockAdvance(d)

SpecFetch == Init /\ [][FetchNext]_vars
(***************************************************************************)
(* Properties.                                                             *)
(***************************************************************************)
NextUpdateOf(rates) == rates.time_next_update_unix

\* C1: at every instant at most one provider call is outstanding in the
\* process, whoever started it (bootstrap, tick, or a request going through
\* getLatestRates).
C1_SingleFlight == Cardinality(Outstanding) <= 1

\* C2: the fetches of one startSmartPolling instance are serialized: the
\* bootstrap fetch and a tick fetch are never outstanding together, no wake
\* timer is pending while either is outstanding, and inFlight is set exactly
\* while tick's fetch is outstanding.
C2_SchedulerSerialized ==
    /\ ~(calls[BOOT] # NoTimer /\ calls[TICK] # NoTimer)
    /\ calls[TICK] # NoTimer => inFlight /\ timer = NoTimer
    /\ calls[BOOT] # NoTimer => ~inFlight /\ timer = NoTimer
    /\ inFlight => calls[TICK] # NoTimer

\* tick's fetch is outstanding, started by the last step, while a request's
\* own fetch is outstanding too
C2_Witness ==
    /\ ev.type = "fetch" /\ ev.who = TICK
    /\ inFlight
    /\ calls[ReqOwner(1)] # NoTimer

\* C3 as stated: no request ever has a provider call of its own.
C3_RequestsNeverFetch == \A r \in Reqs : calls[ReqOwner(r)] = NoTimer

\* C3 amended: a request (GET /api/rates, GET /api/rates/convert, rates:get)
\* that finds the cache valid only reads it: it gets the stored snapshot,
\* starts no provider call and writes nothing; one that finds the cache empty
\* or expired starts a provider call of its own; and the cache is written only
\* by a handler whose own fetch has just succeeded.
C3_RequestsFetchOnlyOnMiss ==
    [][ /\ \A r \in Reqs :
            (req[r].pc = "idle" /\ req'[r].pc # "idle") =>
                IF isCacheValid
                THEN /\ req'[r].pc = "gotSnap"
                     /\ req'[r].snap = cachedRates
                     /\ UNCHANGED <<calls, cacheVars>>
                ELSE /\ req'[r].pc = "fetching"
                     /\ calls'[ReqOwner(r)] # NoTimer
                     /\ UNCHANGED cacheVars
        /\ cacheVars' # cacheVars =>
            \E r \in Reqs : /\ req[r].pc = "fetching"
                            /\ req'[r].pc = "gotSnap"
                            /\ calls'[ReqOwner(r)] = NoTimer
                            /\ cachedRates' = req'[r].snap ]_vars

\* a rates:get event has just been served from the valid cache, no provider
\* call outstanding
C3_Witness ==
    /\ ev.type = "request"
    /\ req[1].pc = "gotSnap" /\ req[1].kind = "socket"
    /\ req[1].snap = cachedRates
    /\ Outstanding = {}

\* C4 as stated: after every updateCache the expiry is the smaller of the TTL
\* bound and the provider's next update, for every snapshot.
C4_ExpiryIsMin ==
    ev.type = "put" =>
        cacheExpiresAt = Min(asOfUnix * 1000 + TTL_MS,
                             NextUpdateOf(cachedRates) * 1000)

\* C4 amended: after every updateCache, asOfUnix is the second of the put and
\* the expiry is the smaller of the TTL bound and the provider's next update
\* when that is non-zero (also when it is in the past), and the TTL bound
\* alone when it is 0.
C4_ExpiryIsMinUnlessZero ==
    ev.type = "put" =>
        /\ asOfUnix = Floor1000(now)
        /\ cacheExpiresAt =
              IF NextUpdateOf(cachedRates) = 0
              THEN asOfUnix * 1000 + TTL_MS
              ELSE Min(asOfUnix * 1000 + TTL_MS, NextUpdateOf(cachedRates) * 1000)

\* a put of a snapshot whose next update is 30 s ahead: the 30 s bound wins
C4_Witness ==
    /\ ev.type = "put"
    /\ NextUpdateOf(cachedRates) = asOfUnix + 30
    /\ cacheExpiresAt = (asOfUnix + 30) * 1000
    /\ cacheExpiresAt < asOfUnix * 1000 + TTL_MS

\* C5 as stated: whenever a snapshot is stored its expiry is not before its
\* capture time.
C5_ExpiryNotBeforeAsOf ==
    cachedRates # NULL => cacheExpiresAt >= asOfUnix * 1000

\* C5 amended: whenever a snapshot is stored, its expiry is not before its
\* capture time provided its next update is 0 or not before the capture
\* second; with an earlier next update the expiry is that next update.
C5_ExpiryNotBeforeAsOfUnlessStale ==
    cachedRates # NULL =>
        LET next == NextUpdateOf(cachedRates)
        IN  /\ (next = 0 \/ next >= asOfUnix) => cacheExpiresAt >= asOfUnix * 1000
            /\ (next # 0 /\ next < asOfUnix) => cacheExpiresAt = next * 1000

\* a stored snapshot whose next update lies beyond the TTL bound
C5_Witness ==
    /\ cachedRates # NULL
    /\ NextUpdateOf(cachedRates) = asOfUnix + 90
    /\ cacheExpiresAt = asOfUnix * 1000 + TTL_MS

C7_SnapshotAndMetaTogether ==
    IF cachedRates = NULL
    THEN asOfUnix = 0 /\ cacheExpiresAt = 0
    ELSE /\ cacheExpiresAt = computeExpireMs(asOfUnix, NextUpdateOf(cachedRates))
         /\ asOfUnix * 1000 <= now

\* tick has just replaced the stored snapshot while a request handler is
\* suspended in a fetch of its own
C7_Witness ==
    /\ req[1].pc = "fetching"
    /\ cachedRates # NULL
    /\ NextUpdateOf(cachedRates) = asOfUnix + 30
    /\ ev.type = "put" /\ ev.who = TICK

\* C8: a step in which a fetch fails (any error class, any caller) leaves
\* cachedRates, asOfUnix and cacheExpiresAt as they were.
C8_FailureLeavesCache ==
    [][ (ev'.err # "" /\ ev' # ev) => UNCHANGED cacheVars ]_vars

\* tick's fetch has just timed out and the last good snapshot is still stored
C8_Witness ==
    /\ ev.type = "fail" /\ ev.who = TICK /\ ev.err = "timeout"
    /\ cachedRates # NULL

\* C9 as stated: after each failed fetch of the scheduler the wake timer is
\* armed 15000 ms ahead.
C9_EveryFailureBacksOff ==
    ev.type = "fail" => timer = now + BACKOFF_MS

\* C9 amended: after each failed fetch of tick the wake timer is armed
\* 15000 ms ahead, however many failures came before, and inFlight is reset.
C9_TickFailureBacksOff ==
    (ev.type = "fail" /\ ev.who = TICK) =>
        /\ timer = now + BACKOFF_MS
        /\ ~inFlight

\* the third failure in a row, with a last good snapshot stored
C9_Witness ==
    /\ ev.type = "fail" /\ ev.who = TICK /\ ev.err = "provider"
    /\ failStreak = 3
    /\ cachedRates # NULL

\* C10: after a failed bootstrap fetch the wake timer is armed 5000 ms ahead,
\* the bootstrap has ended and the error has not left startSmartPolling.
C10_BootstrapFailureRetry ==
    (ev.type = "fail" /\ ev.who = BOOT) =>
        /\ timer = now + INIT_RETRY_MS
        /\ bootPc = "done"
        /\ ~ev.uncaught
        /\ ~inFlight

\* the bootstrap fetch has just failed on an empty cache
C10_Witness ==
    /\ ev.type = "fail" /\ ev.who = BOOT
    /\ cachedRates = NULL
    /\ calls[BOOT] = NoTimer

\* C11: after every successful scheduler fetch (tick's, and the bootstrap's
\* once it continues) the cache holds the fresh snapshot and the wake timer is
\* armed for max(1000 ms, cacheExpiresAt - now): never earlier than 1000 ms
\* ahead, and on the cache's expiry when that is at least 1000 ms ahead.
C11_RearmAfterSuccess ==
    /\ (ev.type = "put" /\ ev.who = TICK) =>
          /\ cachedRates # NULL
          /\ asOfUnix = Floor1000(now)
          /\ ~inFlight
    /\ ((ev.type = "put" /\ ev.who = TICK) \/ (ev.type = "armed" /\ ev.who = BOOT)) =>
          /\ cachedRates # NULL
          /\ timer >= now + 1000
          /\ IF cacheExpiresAt - now >= 1000
             THEN timer = cacheExpiresAt
             ELSE timer = now + 1000

\* tick has just stored a snapshot that is expired on arrival: the floor of
\* 1000 ms applies
C11_Witness ==
    /\ ev.type = "put" /\ ev.who = TICK
    /\ cacheExpiresAt <= now
    /\ timer = now + 1000

\* C12 as stated: a wake-up that finds the cache valid starts no provider
\* call, leaves the cache unchanged, emits nothing and re-arms the timer for
\* the remaining validity window, that is on the cache's expiry.
C12_SkipRearmsAtExpiry ==
    [][ (/\ timer # NoTimer /\ now >= timer /\ timer' # timer
         /\ ~inFlight /\ isCacheValid) =>
            /\ UNCHANGED <<cacheVars, calls>>
            /\ ev'.emit = <<>>
            /\ ~inFlight'
            /\ timer' = cacheExpiresAt ]_vars

\* C12 amended: a wake-up that finds the cache valid starts no provider call,
\* leaves the cache unchanged, emits nothing and re-arms the timer for
\* max(1000 ms, remaining validity window).
C12_SkipRearmsWithFloor ==
    [][ (/\ timer # NoTimer /\ now >= timer /\ timer' # timer
         /\ ~inFlight /\ isCacheValid) =>
            /\ UNCHANGED <<cacheVars, calls>>
            /\ ev'.emit = <<>>
            /\ ~inFlight'
            /\ ev'.type = "skip"
            /\ timer' = IF cacheExpiresAt - now >= 1000
                        THEN cacheExpiresAt ELSE now + 1000 ]_vars

\* tick has just skipped its fetch and sleeps until the cache expires
C12_Witness ==
    /\ ev.type = "skip"
    /\ now < cacheExpiresAt
    /\ timer = cacheExpiresAt
    /\ Outstanding = {}

\* C13: the broadcast collaborator receives the payload exactly once for each
\* successful refresh of the cache, whichever code path performed it, and
\* only then.
C13_BroadcastPerRefresh ==
    /\ ev.type = "put" => Len(ev.emit) = 1
    /\ ev.type # "put" => Len(ev.emit) = 0

\* C14: once stop has been called no wake timer is pending any more.
C14_StopCancelsTimer == ev.type = "stop" => timer = NoTimer

C16_ServeValidElseFetch ==
    [][ /\ \A r \in Reqs :
            /\ (req[r].pc = "idle" /\ req'[r].pc # "idle") =>
                  IF isCacheValid
                  THEN /\ req'[r].pc = "gotSnap"
                       /\ req'[r].snap = cachedRates
                       /\ calls' = calls
                  ELSE /\ req'[r].pc = "fetching"
                       /\ calls'[ReqOwner(r)] = now + FETCH_TIMEOUT_MS
            /\ (req[r].pc = "fetching" /\ req'[r].pc = "gotSnap") =>
                  /\ cachedRates' = req'[r].snap
                  /\ cachedRates' # NULL
                  /\ asOfUnix' = Floor1000(now)
        /\ (bootPc = "off" /\ bootPc' # "off") =>
              IF isCacheValid
              THEN bootPc' = "resolved" /\ calls' = calls /\ cacheVars' = cacheVars
              ELSE bootPc' = "fetching" /\ calls'[BOOT] = now + FETCH_TIMEOUT_MS
        /\ (bootPc = "fetching" /\ bootPc' = "resolved") =>
              /\ cachedRates' # NULL
              /\ asOfUnix' = Floor1000(now) ]_vars

\* a request is served from the valid cache, with no provider call, after the
\* scheduler's last fetch failed
C16_Witness ==
    /\ ev.type = "request"
    /\ req[1].pc = "gotSnap"
    /\ req[1].snap = cachedRates
    /\ failStreak >= 1
    /\ Outstanding = {}

\* C17: the cache starts empty; once a snapshot is stored no step empties the
\* cache again; and the stored snapshot changes only in a successful refresh,
\* to the whole snapshot normalized from one provider body.
C17_NeverEmptiedReplacedWhole ==
    /\ cachedRates = NULL
    /\ [][ /\ cachedRates # NULL => cachedRates' # NULL
           /\ cachedRates' # cachedRates =>
                 /\ ev'.type = "put"
                 /\ \E body \in ProviderBodies(now) : cachedRates' = Normalize(body) ]_vars

\* the stored snapshot has outlived its expiry and two failed refreshes
C17_Witness ==
    /\ ev.type = "fail" /\ ev.who = TICK
    /\ failStreak = 2
    /\ cachedRates # NULL
    /\ now >= cacheExpiresAt

\* C18: the rate between a code and itself is exactly 1 in every cache state,
\* the empty cache included, for quoted and unquoted codes alike.
C18_SameCodeIsOne ==
    \A c \in ValidCodes : getRateBetweenCurrencies(c, c) = Num(1, 1)

\* C19: with a snapshot stored, the rate from the base to another code is
\* rates[to] when the code is quoted and nothing otherwise; and a /convert
\* answered for such a pair carries that rate, or is a 404.
C19_FromBase ==
    /\ cachedRates # NULL =>
          \A to \in ValidCodes \ {cachedRates.base_code} :
              getRateBetweenCurrencies(cachedRates.base_code, to) =
                  IF to \in DOMAIN cachedRates.rates
                  THEN [num |-> cachedRates.rates[to], den |-> 1000]
                  ELSE NULL
    /\ (/\ ev.type = "reply" /\ ev.reply.kind = "convert"
        /\ cachedRates # NULL /\ ev.reply.status = 200
        /\ ev.reply.body.from = cachedRates.base_code
        /\ ev.reply.body.to # ev.reply.body.from) =>
          /\ ev.reply.body.to \in DOMAIN cachedRates.rates
          /\ ev.reply.body.rate.num * 1000 =
                cachedRates.rates[ev.reply.body.to] * ev.reply.body.rate.den
    /\ (/\ ev.type = "reply" /\ ev.reply.kind = "convert"
        /\ cachedRates # NULL /\ ev.reply.status = 404
        /\ ev.reply.body.from = cachedRates.base_code) =>
          ev.reply.body.to \notin DOMAIN cachedRates.rates

\* /convert from the base USD to EUR has just been answered with rate 0.90
C19_Witness ==
    /\ ev.type = "reply" /\ ev.reply.kind = "convert" /\ ev.reply.status = 200
    /\ ev.reply.body.from = "USD" /\ ev.reply.body.to = "EUR"
    /\ ev.reply.body.rate = [num |-> 900, den |-> 1000]

\* C20: with a snapshot stored, the rate from another code to the base is
\* 1 / rates[from] when the code is quoted with a non-zero rate and nothing
\* when it is unquoted or quoted at 0; a /convert answered for such a pair
\* never carries a division by 0.
C20_ToBase ==
    /\ cachedRates # NULL =>
          \A from \in ValidCodes \ {cachedRates.base_code} :
              getRateBetweenCurrencies(from, cachedRates.base_code) =
                  IF from \in DOMAIN cachedRates.rates /\ cachedRates.rates[from] # 0
                  THEN [num |-> 1000, den |-> cachedRates.rates[from]]
                  ELSE NULL
    /\ (/\ ev.type = "reply" /\ ev.reply.kind = "convert"
        /\ cachedRates # NULL /\ ev.reply.status = 200
        /\ ev.reply.body.to = cachedRates.base_code
        /\ ev.reply.body.to # ev.reply.body.from) =>
          /\ ev.reply.body.rate.den # 0
          /\ ev.reply.body.converted.den # 0
    /\ (/\ ev.type = "reply" /\ ev.reply.kind = "convert"
        /\ cachedRates # NULL /\ ev.reply.status = 404
        /\ ev.reply.body.to = cachedRates.base_code) =>
          \/ ev.reply.body.from \notin DOMAIN cachedRates.rates
          \/ cachedRates.rates[ev.reply.body.from] = 0

\* /convert to the base USD from a currency quoted at 0 has just been
\* answered 404
C20_Witness ==
    /\ ev.type = "reply" /\ ev.reply.kind = "convert" /\ ev.reply.status = 404
    /\ ev.reply.body.from = "ZWL" /\ ev.reply.body.to = "USD"
    /\ cachedRates # NULL /\ cachedRates.rates["ZWL"] = 0

\* C21: with a snapshot stored, the rate between two different codes that
\* both differ from the base is rates[to] / rates[from] when both are quoted
\* and nothing when either is not (base USD, EUR 0.90, ARS 1000: EUR to ARS is
\* 1000 / 0.90); a /convert answered for such a pair carries that quotient, or
\* is a 404 when a code is unquoted.
C21_CrossPair ==
    /\ cachedRates # NULL =>
          /\ \A from, to \in (ValidCodes \cup {"ARS"}) \ {cachedRates.base_code} :
                from # to =>
                   getRateBetweenCurrencies(from, to) =
                      IF /\ from \in DOMAIN cachedRates.rates
                         /\ to \in DOMAIN cachedRates.rates
                      THEN [num |-> cachedRates.rates[to],
                            den |-> cachedRates.rates[from]]
                      ELSE NULL
          /\ getRateBetweenCurrencies("EUR", "ARS") = [num |-> 1000000, den |-> 900]
    /\ (/\ ev.type = "reply" /\ ev.reply.kind = "convert"
        /\ ev.reply.status \in {200, 404}
        /\ ev.reply.body.from # cachedRates.base_code
        /\ ev.reply.body.to # cachedRates.base_code
        /\ ev.reply.body.from # ev.reply.body.to) =>
          IF ev.reply.status = 200
          THEN /\ ev.reply.body.from \in DOMAIN cachedRates.rates
               /\ ev.reply.body.to \in DOMAIN cachedRates.rates
               /\ ev.reply.body.rate.num = cachedRates.rates[ev.reply.body.to]
               /\ ev.reply.body.rate.den = cachedRates.rates[ev.reply.body.from]
          ELSE \/ ev.reply.body.from \notin DOMAIN cachedRates.rates
               \/ ev.reply.body.to \notin DOMAIN cachedRates.rates

\* /convert between EUR and an unquoted code has just been answered 404
C21_Witness ==
    /\ ev.type = "reply" /\ ev.reply.kind = "convert" /\ ev.reply.status = 404
    /\ ev.reply.body.from = "EUR" /\ ev.reply.body.to = "GBP"
    /\ getRateBetweenCurrencies("EUR", "ARS") = [num |-> 1000000, den |-> 900]

\* C22: a /convert answered 200 reports the rate between its two codes and,
\* as converted, the amount times that rate, unrounded; it is answered 404,
\* with no number, exactly when there is no rate for the pair.
C22_ConvertedIsAmountTimesRate ==
    (ev.type = "reply" /\ ev.reply.kind = "convert"
        /\ ev.reply.status \in {200, 404}) =>
       LET b == ev.reply.body
           rate == getRateBetweenCurrencies(b.from, b.to)
       IN  IF ev.reply.status = 200
           THEN /\ rate # NULL
                /\ b.rate = rate
                /\ b.converted = [num |-> b.amount * rate.num, den |-> rate.den]
           ELSE /\ rate = NULL
                /\ DOMAIN b = {"from", "to"}

\* 10 EUR have just been converted to USD: 10 * (1 / 0.90), not a whole number
C22_Witness ==
    /\ ev.type = "reply" /\ ev.reply.kind = "convert" /\ ev.reply.status = 200
    /\ ev.reply.body.from = "EUR" /\ ev.reply.body.to = "USD"
    /\ ev.reply.body.amount = 10
    /\ ev.reply.body.converted = [num |-> 10000, den |-> 900]

\* C23 as stated: a /convert whose from or to is not a 3-letter code, or whose
\* amount is not a finite non-negative number, is answered 400 with no cache
\* access and no provider call; any other /convert that finds no servable
\* snapshot is answered 503; the others go on to 404 or 200.
C23_NotReadyWithoutSnapshot ==
    [][ \A r \in Reqs :
          (/\ req[r].pc = "idle" /\ ev'.who = ReqOwner(r)
           /\ ev'.type \in {"request", "reply"}
           /\ ev'.reply # NULL /\ ev'.reply.kind = "convert") =>
             LET q == ev'.reply.body
             IN  IF \/ ~isValidCurrency(ToUpperCase(q.from))
                    \/ ~isValidCurrency(ToUpperCase(q.to))
                    \/ q.amount = ""
                    \/ ~Number(q.amount).finite
                    \/ Number(q.amount).value < 0
                 THEN /\ ev'.reply.status = 400
                      /\ UNCHANGED <<cacheVars, calls, req>>
                 ELSE IF ~isCacheValid
                 THEN /\ ev'.type = "reply" /\ ev'.reply.status = 503
                      /\ UNCHANGED <<cacheVars, calls, req>>
                 ELSE ev'.type = "request" ]_vars

\* C23 amended: a /convert whose upper-cased from or to is not a 3-letter
\* code, or whose amount converts to NaN, an infinity or a negative number, is
\* answered 400 with no cache access and no provider call (an empty amount
\* converts to 0 and is accepted); any other /convert proceeds: on a valid
\* cache with no provider call, otherwise with a provider call of its own,
\* and is answered 503 exactly when that call fails; a handler that has its
\* snapshot answers 404 when the two codes differ and have no rate, and 200
\* otherwise; every handler ends with exactly one answer.
C23_OutcomePrecedence ==
    [][ \A r \in Reqs :
          /\ (/\ req[r].pc = "idle" /\ ev'.who = ReqOwner(r)
              /\ ev'.type \in {"request", "reply"}
              /\ ev'.reply # NULL /\ ev'.reply.kind = "convert") =>
                LET q == ev'.reply.body
                IN  IF \/ ~isValidCurrency(ToUpperCase(q.from))
                       \/ ~isValidCurrency(ToUpperCase(q.to))
                       \/ ~Number(q.amount).finite
                       \/ Number(q.amount).value < 0
                    THEN /\ ev'.type = "reply" /\ ev'.reply.status = 400
                         /\ UNCHANGED <<cacheVars, calls, req>>
                    ELSE /\ ev'.type = "request"
                         /\ UNCHANGED cacheVars
                         /\ IF isCacheValid
                            THEN req'[r].pc = "gotSnap" /\ UNCHANGED calls
                            ELSE /\ req'[r].pc = "fetching"
                                 /\ calls'[ReqOwner(r)] # NoTimer
          /\ (/\ req[r].pc # "idle" /\ req[r].kind = "convert"
              /\ req'[r].pc = "idle") =>
                /\ ev'.type = "reply" /\ ev'.who = ReqOwner(r)
                /\ IF req[r].pc = "fetching"
                   THEN ev'.reply.status = 503 /\ ev'.err # ""
                   ELSE /\ req[r].pc = "gotMeta"
                        /\ ev'.err = ""
                        /\ ev'.reply.status \in {200, 404}
                        /\ ev'.reply.status = 404 <=>
                              /\ ev'.reply.body.from # ev'.reply.body.to
                              /\ getRateBetweenCurrencies(ev'.reply.body.from,
                                                          ev'.reply.body.to) = NULL ]_vars

\* a /convert with a negative amount has just been answered 400 on an empty
\* cache, with no provider call
C23_Witness ==
    /\ ev.type = "reply" /\ ev.reply.kind = "convert" /\ ev.reply.status = 400
    /\ ev.reply.body.amount = "-1"
    /\ cachedRates = NULL
    /\ Outstanding = {}

\* C24 as stated: an attempt of fetchRatesFromProvider ends in a snapshot, in
\* Network (only after a non-success status), in ProviderError with the
\* vendor's error-type or the fallback reason, or in Timeout; and an attempt
\* that ends once its 10-second deadline has passed ends in Timeout, whatever
\* it was awaiting.
C24_FourClassesTimeoutAnywhere ==
    [][ \A r \in SchedReqs :
          (/\ req[r].pc \in {"fetching", "readingJson", "readingText"}
           /\ req'[r].pc \notin {"fetching", "readingJson", "readingText"}) =>
             /\ \/ ev'.type = "put"
                \/ ev'.err = "http" /\ req[r].pc = "readingText"
                \/ ev'.err = "provider"
                \/ ev'.err = "timeout"
             /\ now >= calls[ReqOwner(r)] => ev'.err = "timeout" ]_vars

\* C24 amended: an attempt ends in exactly one way, and its abort timer is
\* cleared.  After a non-success status: Error "Provider HTTP <status>", also
\* when the deadline passes while the error text is read.  Past the deadline
\* while fetch() or the body of a success-status response is awaited: Error
\* "Provider request timed out".  Before the deadline: a rejection of fetch()
\* and an unparseable body are rethrown as they are (TypeError, SyntaxError);
\* a body whose result is not success gives Error "Provider result not
\* success: <error-type, or 'Unknown provider error'>"; a success body gives
\* the normalized snapshot, provider defaulted to "exchangerate-api" and
\* time_eol_unix to 0 when absent, which the caller stores.
C24_ClassifiedOutcomes ==
    [][ \A r \in SchedReqs :
          (/\ req[r].pc \in {"fetching", "readingJson", "readingText"}
           /\ req'[r].pc \notin {"fetching", "readingJson", "readingText"}) =>
             /\ calls'[ReqOwner(r)] = NoTimer
             /\ ev'.who = ReqOwner(r)
             /\ IF req[r].pc = "readingText"
                THEN /\ ev'.err = "http" /\ ev'.reply.body = HttpError
                     /\ UNCHANGED cacheVars
                ELSE IF now >= calls[ReqOwner(r)]
                THEN /\ ev'.err = "timeout" /\ ev'.reply.body = TimeoutError
                     /\ UNCHANGED cacheVars
                ELSE IF req[r].pc = "fetching"
                THEN /\ ev'.err = "network" /\ ev'.reply.body.name = "TypeError"
                     /\ UNCHANGED cacheVars
                ELSE \/ /\ ev'.err = "malformed"
                        /\ ev'.reply.body.name = "SyntaxError"
                        /\ UNCHANGED cacheVars
                     \/ /\ ev'.err = "provider"
                        /\ ev'.reply.body.message = "Provider result not success"
                        /\ ev'.reply.body.reason \in
                              {"quota-reached", "Unknown provider error"}
                        /\ UNCHANGED cacheVars
                     \/ /\ ev'.type = "put" /\ ev'.err = ""
                        /\ req'[r].pc = "gotSnap"
                        /\ req'[r].snap = cachedRates'
                        /\ \E b \in FetchBodies(now) :
                              /\ DOMAIN b # {"malformed"}
                              /\ b.result = "success"
                              /\ cachedRates'.rates = b.conversion_rates
                              /\ cachedRates'.base_code = b.base_code
                              /\ cachedRates'.time_next_update_unix =
                                    b.time_next_update_unix
                              /\ cachedRates'.provider =
                                    IF "provider" \in DOMAIN b THEN b.provider
                                    ELSE "exchangerate-api"
                              /\ cachedRates'.time_eol_unix =
                                    IF "time_eol_unix" \in DOMAIN b
                                    THEN b.time_eol_unix ELSE 0 ]_vars

\* an attempt has just ended at its deadline with the timeout error, its
\* abort timer cleared and nothing stored
C24_Witness ==
    /\ ev.type = "reply" /\ ev.err = "timeout"
    /\ ev.reply.body = TimeoutError
    /\ ev.reply.status = 503
    /\ Outstanding = {}
    /\ cachedRates = NULL

\* C25 as stated: while a provider call of the scheduler (bootstrap or tick)
\* is outstanding, no request handler is waiting on a provider call.
C25_ReadsNeverWaitOnAFetch ==
    (calls[BOOT] # NoTimer \/ calls[TICK] # NoTimer) =>
        \A r \in Reqs : req[r].pc # "fetching"

\* C25 amended: a provider call of the scheduler suspends only the scheduler:
\* while it is outstanding an idle handler can take a request; the request is
\* served from the cache at once when the cache is valid, and otherwise starts
\* and waits on a provider call of its own, never on the scheduler's; the
\* handler's reads of the cache change nothing of the scheduler's call.
C25_ReadsNeverWaitOnScheduler ==
    /\ (/\ calls[BOOT] # NoTimer \/ calls[TICK] # NoTimer
        /\ req[1].pc = "idle"
        /\ ~microPending) => ENABLED RatesRequest(1)
    /\ \A r \in Reqs : req[r].pc = "fetching" <=> calls[ReqOwner(r)] # NoTimer
    /\ (/\ calls[BOOT] # NoTimer \/ calls[TICK] # NoTimer
        /\ ev.type = "request") =>
          \E r \in Reqs :
             /\ ev.who = ReqOwner(r)
             /\ req[r].pc = IF isCacheValid THEN "gotSnap" ELSE "fetching"
             /\ isCacheValid => req[r].snap = cachedRates

\* a request has just been served from the valid cache while the provider
\* call of a tick is outstanding
C25_Witness ==
    /\ calls[TICK] # NoTimer /\ inFlight
    /\ ev.type = "request" /\ ev.who = ReqOwner(1)
    /\ req[1].pc = "gotSnap"
    /\ req[1].snap = cachedRates

\* C26: a rates:get on connection s less than 500 ms after the last one
\* accepted on s is dropped: no reply, no cache or provider access, nothing
\* recorded; any other rates:get on s is accepted, whatever the other
\* connections did, and records its time for s alone; an accepted rates:get
\* ends with exactly one answer, rates:data with the snapshot or rates:error,
\* and nothing else is ever emitted on the socket.
C26_ThrottlePerSocket ==
    [][ /\ ev'.type \in {"drop", "request"} =>
             /\ ev'.sock \in Sockets
             /\ IF now - lastRequest[ev'.sock] < THROTTLE_MS
                THEN /\ ev'.type = "drop"
                     /\ ev'.reply = NULL /\ ev'.emit = <<>>
                     /\ UNCHANGED <<cacheVars, calls, req, lastRequest>>
                ELSE /\ ev'.type = "request"
                     /\ lastRequest' = [lastRequest EXCEPT ![ev'.sock] = now]
                     /\ \E r \in Reqs :
                           /\ ev'.who = ReqOwner(r)
                           /\ req[r].pc = "idle"
                           /\ req'[r].kind = "socket"
                           /\ req'[r].pc \in {"gotSnap", "fetching"}
        /\ \A r \in Reqs :
             /\ (req[r].pc # "idle" /\ req'[r].pc = "idle") =>
                   /\ ev'.type = "reply" /\ ev'.who = ReqOwner(r)
                   /\ ev'.reply.kind = "socket"
                   /\ \/ /\ ev'.reply.status = "rates:data"
                         /\ ev'.reply.body = req[r].snap
                         /\ req[r].snap # NULL
                      \/ /\ ev'.reply.status = "rates:error"
                         /\ ev'.err # ""
             /\ (ev'.type = "reply" /\ ev'.who = ReqOwner(r)) =>
                   req[r].pc # "idle" /\ req'[r].pc = "idle"
      ]_vars

\* a rates:get has just been accepted on connection 2 while connection 1 is
\* inside its own throttle window
C26_Witness ==
    /\ ev.type = "request" /\ ev.sock = 2
    /\ lastRequest[2] = now
    /\ lastRequest[1] > 0
    /\ now - lastRequest[1] < THROTTLE_MS

\* C27: whatever is stored, the rate between any two codes is either nothing or
\* a finite number: no quotient with a zero divisor is ever returned.
C27_RateIsMissOrFinite ==
    cachedRates # NULL =>
       \A from, to \in ValidCodes \cup {"ARS"} :
          \/ getRateBetweenCurrencies(from, to) = NULL
          \/ getRateBetweenCurrencies(from, to).den # 0

\* C28: the payload getLatestRatesWithCacheMeta hands to its caller comes from
\* one put: its snapshot is the stored one and its as_of_unix and expires_unix
\* are the ones stored with it, the expiry being the one computed from that
\* as-of time and that snapshot; the /api/rates answer carries this payload.
C28_PayloadFromOnePut ==
    /\ \A r \in Reqs :
          req[r].pc = "gotMeta" =>
             /\ req[r].meta.snap = req[r].snap
             /\ req[r].meta.snap = cachedRates
             /\ req[r].meta.as_of_unix = asOfUnix
             /\ req[r].meta.expires_unix = Floor1000(cacheExpiresAt)
             /\ req[r].meta.expires_unix =
                   Floor1000(computeExpireMs(req[r].meta.as_of_unix,
                                             NextUpdateOf(req[r].meta.snap)))
    /\ (/\ ev.type = "reply" /\ ev.reply.kind = "rates"
        /\ ev.reply.status = 200) =>
          /\ ev.reply.body.snap = cachedRates
          /\ ev.reply.body.as_of_unix = asOfUnix
          /\ ev.reply.body.expires_unix =
                Floor1000(computeExpireMs(ev.reply.body.as_of_unix,
                                          NextUpdateOf(ev.reply.body.snap)))

\* a handler has just read the metadata of the snapshot its own fetch stored,
\* while the provider call of a tick is still outstanding
C28_Witness ==
    /\ ev.type = "meta" /\ ev.who = ReqOwner(1)
    /\ req[1].pc = "gotMeta"
    /\ req[1].meta.as_of_unix = Floor1000(now)
    /\ calls[TICK] # NoTimer

\* C29: a put never replaces the stored snapshot by one with an older provider
\* time_last_update_unix.
C29_NeverBackwards ==
    (ev.type = "put" /\ ev.replaced # NULL) =>
        cachedRates.time_last_update_unix >= ev.replaced.time_last_update_unix

\* C30: once startSmartPolling has run, exactly one of these holds: the
\* bootstrap is running, a tick is executing (inFlight, awaiting its provider
\* call), or a wake timer is armed with inFlight false; and a wake timer is
\* only ever armed when none is pending.
C30_ExactlyOneActivity ==
    /\ [](bootPc # "off" =>
            /\ \/ /\ bootPc \in {"fetching", "resolved"}
                  /\ ~inFlight /\ timer = NoTimer
               \/ /\ inFlight
                  /\ bootPc = "done" /\ timer = NoTimer
               \/ /\ timer # NoTimer /\ ~inFlight
                  /\ bootPc = "done"
            /\ inFlight <=> calls[TICK] # NoTimer
            /\ bootPc = "fetching" <=> calls[BOOT] # NoTimer)
    /\ [][ (timer' # timer /\ timer' # NoTimer) =>
              \/ timer = NoTimer
              \/ now >= timer /\ ev'.type = "skip" ]_vars

\* the second failed refresh in a row has just ended: inFlight is reset and
\* the wake timer is armed again
C30_Witness ==
    /\ ev.type = "fail" /\ ev.who = TICK
    /\ failStreak = 2
    /\ ~inFlight /\ timer = now + BACKOFF_MS
    /\ bootPc = "done"

\* C31: no run of tick, and so no provider call of the scheduler, starts less
\* than 1000 ms after the scheduler's previous run (bootstrap, refresh, skip
\* or failure) ended; every such run leaves the wake timer armed at least
\* 1000 ms ahead, also when the snapshot just stored is expired on arrival;
\* and a provider call of the scheduler starts only in the bootstrap or when
\* the wake timer is due.
C31_CallsAtLeastOneSecondApart ==
    /\ [](/\ schedEnded # NoTimer =>
                /\ now - schedEnded <= 1000
                /\ calls[BOOT] = NoTimer
                /\ calls[TICK] # NoTimer => now - schedEnded = 1000
                /\ (bootPc = "done" /\ timer # NoTimer) => timer >= schedEnded + 1000
          /\ (ev.who \in {BOOT, TICK} /\ ev.type \in {"put", "fail", "skip", "armed"}) =>
                /\ schedEnded = now
                /\ bootPc = "done" => timer >= now + 1000)
    /\ [][ /\ (timer # NoTimer /\ now >= timer /\ timer' # timer) =>
                (schedEnded = NoTimer \/ now - schedEnded >= 1000)
           /\ (calls[TICK] = NoTimer /\ calls'[TICK] # NoTimer) =>
                /\ timer # NoTimer /\ now >= timer
                /\ schedEnded = NoTimer \/ now - schedEnded >= 1000
           /\ (calls[BOOT] = NoTimer /\ calls'[BOOT] # NoTimer) =>
                bootPc = "off" /\ schedEnded = NoTimer ]_vars

\* tick has just started a provider call exactly 1000 ms after its previous
\* refresh stored a snapshot that was expired on arrival
C31_Witness ==
    /\ ev.type = "fetch" /\ ev.who = TICK
    /\ calls[TICK] # NoTimer
    /\ schedEnded = now - 1000
    /\ failStreak = 0
    /\ cachedRates # NULL
    /\ cacheExpiresAt < schedEnded
    /\ asOfUnix = Floor1000(schedEnded)
====
